---------------------------- MODULE Spec2Model ----------------------------
(***************************************************************************)
(* Model of the sprite asset organizer:                                    *)
(*   organize_files.py : extract_category, organize_files,                 *)
(*                       delete_non_foldered_files                         *)
(*   rename_sprites.py : extract_proper_name, main                         *)
(* Strings are sequences of one-character strings, so that the pattern     *)
(* rules are computed character by character as the code computes them.    *)
(***************************************************************************)
EXTENDS Integers, Sequences, FiniteSets, TLC

VARIABLES
    pc,            \* position of the running program
    filename,      \* extract_category: its argument
    category,      \* extract_category: its return value
    folder_name,   \* extract_proper_name: its argument
    proper_name,   \* extract_proper_name: its return value
    fs,            \* the filesystem: path -> directory or file with its data
    fs0,           \* the filesystem as it was when the program started
    directory_path,    \* organize_files: its argument
    output_arg,        \* organize_files: the output_dir it was called with
    output_dir,        \* organize_files: output_dir after lines 84-88
    file_types,        \* organize_files: file_types (the argument, then the default)
    dry_run,           \* organize_files: its argument
    delete_originals,  \* organize_files: its argument
    files,         \* organize_files: the files found, in directory order
    categories,    \* organize_files: <<category, its files>> in insertion order
    ci,            \* organize_files: index of the category being processed
    fi,            \* organize_files: index of the file being processed
    directories,   \* rename_sprites.main: the folders to process, in listing order
    di,            \* rename_sprites.main: index of the folder being processed
    svg_files,     \* rename_sprites.main: sorted(svg_files) of that folder
    si             \* rename_sprites.main: the index i of the file being copied

pureVars == <<filename, category, folder_name, proper_name>>
fileVars == <<fs, fs0, directory_path, output_arg, output_dir, file_types,
              dry_run, delete_originals, files, categories, ci, fi>>
renVars == <<directories, di, svg_files, si>>
vars == <<pc, pureVars, fileVars, renVars>>

-----------------------------------------------------------------------------
(* Bounds of the model *)

\* Longest input of the pure functions, counted in fragments
MaxFrags == 4

\* Longest folder name given to extract_proper_name, counted in fragments
MaxNameFrags == 5

\* Most files the source directory of organize_files holds
MaxFiles == 3

\* Most .svg names a sprite folder of rename_sprites holds
MaxSprites == 3

-----------------------------------------------------------------------------
(* Characters and strings *)

Upper == <<"A","B","C","D","E","F","G","H","I","J","K","L","M",
           "N","O","P","Q","R","S","T","U","V","W","X","Y","Z">>
Lower == <<"a","b","c","d","e","f","g","h","i","j","k","l","m",
           "n","o","p","q","r","s","t","u","v","w","x","y","z">>
Digits == {"0","1","2","3","4","5","6","7","8","9"}

Range(s) == {s[i] : i \in DOMAIN s}

\* [A-Za-z]
Letters == Range(Upper) \cup Range(Lower)

\* str.lower() on one character
LowerChar(c) ==
    IF \E i \in DOMAIN Upper : Upper[i] = c
    THEN Lower[CHOOSE i \in DOMAIN Upper : Upper[i] = c]
    ELSE c

\* str.lower()
ToLower(s) == [i \in DOMAIN s |-> LowerChar(s[i])]

Slash == <<"/">>
Dot == <<".">>
Underscore == <<"_">>
DoubleUnderscore == <<"_","_">>
\* Marks "no match" / None; it is no string of characters
NoMatch == <<"<none>">>

Min(S) == CHOOSE x \in S : \A y \in S : x <= y
Max(S) == CHOOSE x \in S : \A y \in S : x >= y

\* s[n:]
Drop(s, n) == SubSeq(s, n + 1, Len(s))
\* s[:n]
Take(s, n) == SubSeq(s, 1, n)

\* s.startswith(p)
StartsWith(s, p) == Len(p) <= Len(s) /\ SubSeq(s, 1, Len(p)) = p
\* s.endswith(p)
EndsWith(s, p) == Len(p) <= Len(s) /\ SubSeq(s, Len(s) - Len(p) + 1, Len(s)) = p

\* The 1-based positions at which p occurs in s
Occurrences(s, p) ==
    {i \in 1..(Len(s) - Len(p) + 1) : SubSeq(s, i, i + Len(p) - 1) = p}

\* p in s
Contains(s, p) == Occurrences(s, p) # {}
\* s.find(p) + 1: the first occurrence, 0 when there is none
Find(s, p) == IF Contains(s, p) THEN Min(Occurrences(s, p)) ELSE 0
\* s.rfind(p) + 1: the last occurrence, 0 when there is none
RFind(s, p) == IF Contains(s, p) THEN Max(Occurrences(s, p)) ELSE 0

\* s.split(sep)[-1]
SplitLast(s, sep) ==
    IF Contains(s, sep) THEN Drop(s, RFind(s, sep) + Len(sep) - 1) ELSE s
\* s.split(sep, 1)[1], for s that contains sep
SplitFirstRest(s, sep) == Drop(s, Find(s, sep) + Len(sep) - 1)

\* os.path.basename (posixpath): what follows the last '/'
basename(p) == Drop(p, RFind(p, Slash))

\* Length of the leading run of characters of s that are in chars
RunLength(s, chars) ==
    IF \E i \in DOMAIN s : s[i] \notin chars
    THEN Min({i \in DOMAIN s : s[i] \notin chars}) - 1
    ELSE Len(s)

\* re.match(r'([A-Za-z]+)', s).group(1); the empty string when there is no match
LeadingLetters(s) == Take(s, RunLength(s, Letters))

\* os.path.splitext(p)[0] (genericpath._splitext with sep '/', extsep '.'):
\* the extension starts at the last dot, unless that dot lies before the last
\* '/' or only dots lie between the last '/' and it
splitext_root(p) ==
    LET sepIndex == RFind(p, Slash)
        dotIndex == RFind(p, Dot)
    IN  IF dotIndex > sepIndex
           /\ \E k \in (sepIndex + 1)..(dotIndex - 1) : p[k] # "."
        THEN Take(p, dotIndex - 1)
        ELSE p

-----------------------------------------------------------------------------
(* organize_files.py: extract_category *)

KwIconArt == <<"I","c","o","n","A","r","t">>
KwFrame == <<"F","r","a","m","e">>
KwDoodad == <<"D","o","o","d","a","d">>
KwWindow == <<"W","i","n","d","o","w">>
KwButton == <<"B","u","t","t","o","n">>

\* The ordered (keyword of r'^_?<keyword>', category) list
patterns ==
    << <<KwIconArt, KwIconArt>>,
       <<KwFrame, KwFrame>>,
       <<KwDoodad, KwDoodad>>,
       <<KwWindow, KwWindow>>,
       <<KwButton, KwButton>> >>

\* Mutant: the pattern without its optional leading underscore
ReMatchPattern_NoUnderscore(kw, s) == StartsWith(s, kw)

\* re.match(r'^_?<kw>', s)
ReMatchPattern(kw, s) == StartsWith(s, kw) \/ StartsWith(s, Underscore \o kw)

\* for pattern, category in patterns: if re.match(pattern, s): return category
FirstPattern(s) ==
    LET hits == {i \in DOMAIN patterns : ReMatchPattern(patterns[i][1], s)}
    IN  IF hits = {} THEN NoMatch ELSE patterns[Min(hits)][2]

\* The name the double-underscore rule looks at: the parameter is rebound to
\* its last path segment before the rule runs
TrimmedFilename(arg) ==
    IF Contains(arg, Slash) THEN SplitLast(arg, Slash) ELSE arg

\* The double-underscore rule: NoMatch when it returns nothing
DoubleUnderscoreRule(name) ==
    IF ~Contains(name, DoubleUnderscore) THEN NoMatch
    ELSE LET after_double_underscore == SplitFirstRest(name, DoubleUnderscore)
         IN  IF FirstPattern(after_double_underscore) # NoMatch
             THEN FirstPattern(after_double_underscore)
             ELSE IF LeadingLetters(after_double_underscore) # <<>>
             THEN LeadingLetters(after_double_underscore)
             ELSE NoMatch

\* The leading-underscore rule: NoMatch when it returns nothing
LeadingUnderscoreRule(base_filename) ==
    IF ~StartsWith(base_filename, Underscore) THEN NoMatch
    ELSE LET name_without_underscore == Drop(base_filename, 1)
         IN  IF LeadingLetters(name_without_underscore) # <<>>
             THEN LeadingLetters(name_without_underscore)
             ELSE NoMatch

\* Mutant: the leading-underscore rule guarded by "no double underscore"
extract_category_GuardedUnderscore(arg) ==
    LET name == TrimmedFilename(arg)
        base_filename == basename(name)
    IN  IF FirstPattern(base_filename) # NoMatch
        THEN FirstPattern(base_filename)
        ELSE IF DoubleUnderscoreRule(name) # NoMatch
        THEN DoubleUnderscoreRule(name)
        ELSE IF ~Contains(name, DoubleUnderscore)
                /\ LeadingUnderscoreRule(base_filename) # NoMatch
        THEN LeadingUnderscoreRule(base_filename)
        ELSE splitext_root(name)

extract_category(arg) ==
    LET name == TrimmedFilename(arg)
        base_filename == basename(name)
    IN  IF FirstPattern(base_filename) # NoMatch
        THEN FirstPattern(base_filename)
        ELSE IF DoubleUnderscoreRule(name) # NoMatch
        THEN DoubleUnderscoreRule(name)
        ELSE IF LeadingUnderscoreRule(base_filename) # NoMatch
        THEN LeadingUnderscoreRule(base_filename)
        ELSE splitext_root(name)

-----------------------------------------------------------------------------
(* rename_sprites.py: extract_proper_name *)

KwDefineSprite == <<"D","e","f","i","n","e","S","p","r","i","t","e","_">>
AUnderscore == <<"a","_">>

\* re.search(r'a_(.+)$', s): the positions of an "a_" that at least one
\* character follows (names hold no newline, so '.' takes any character
\* and '$' is the end of the name)
AUnderscoreMatches(s) == {i \in Occurrences(s, AUnderscore) : i + 2 <= Len(s)}

\* group(1) of the leftmost match
AUnderscoreGroup(s) == Drop(s, Min(AUnderscoreMatches(s)) + 1)

\* The position of the '_' that closes the digits of a "DefineSprite_"
\* starting at i: \d+ takes the longest run of digits, and '_' must follow it
DigitsEnd(s, i) ==
    i + Len(KwDefineSprite)
      + RunLength(Drop(s, i + Len(KwDefineSprite) - 1), Digits)

\* re.search(r'DefineSprite_(\d+)_(.+)$', s): the positions where it matches
DefineSpriteMatches(s) ==
    {i \in Occurrences(s, KwDefineSprite) :
        /\ DigitsEnd(s, i) > i + Len(KwDefineSprite)
        /\ DigitsEnd(s, i) < Len(s)
        /\ s[DigitsEnd(s, i)] = "_"}

\* group(2) of the leftmost match
DefineSpriteGroup(s) == Drop(s, DigitsEnd(s, Min(DefineSpriteMatches(s))))

\* Mutant: the two searches in the other order
extract_proper_name_DefineSpriteFirst(name) ==
    IF DefineSpriteMatches(name) # {} THEN DefineSpriteGroup(name)
    ELSE IF AUnderscoreMatches(name) # {} THEN AUnderscoreGroup(name)
    ELSE name

extract_proper_name(name) ==
    IF AUnderscoreMatches(name) # {} THEN AUnderscoreGroup(name)
    ELSE IF DefineSpriteMatches(name) # {} THEN DefineSpriteGroup(name)
    ELSE name

-----------------------------------------------------------------------------
(* Inputs of the pure functions *)

ExIconArtStoreFront == <<"D","e","f","i","n","e","S","p","r","i","t","e","_","2","6","5","_","_","I","c","o","n","A","r","t","S","t","o","r","e","F","r","o","n","t","1","4","/","1",".","s","v","g">>
ExFrameBendBronze == <<"D","e","f","i","n","e","S","p","r","i","t","e","_","5","3","9","_","_","F","r","a","m","e","B","e","n","d","B","r","o","n","z","e","0","1","/","1",".","s","v","g">>
ExFrameDoodadThing == <<"F","r","a","m","e","D","o","o","d","a","d","T","h","i","n","g",".","s","v","g">>
ExZorblat == <<"D","e","f","i","n","e","S","p","r","i","t","e","_","1","0","_","_","Z","o","r","b","l","a","t","9","9",".","s","v","g">>
ExWindowSkin == <<"_","W","i","n","d","o","w","S","k","i","n","H","e","a","d","e","r","T","a","l","e","n","t","s",".","s","v","g">>
ExButtonFrame == <<"_","B","u","t","t","o","n","F","r","a","m","e","S","t","a","n","d","a","r","d","0","8",".","s","v","g">>
ExThunderGolem == <<"D","e","f","i","n","e","S","p","r","i","t","e","_","2","_","a","_","W","a","i","s","t","S","i","d","e","_","T","h","u","n","d","e","r","G","o","l","e","m">>
ExEscapedGladiator == <<"D","e","f","i","n","e","S","p","r","i","t","e","_","1","2","3","4","_","T","o","r","s","o","_","E","s","c","a","p","e","d","G","l","a","d","i","a","t","o","r">>
ExNoPatternHere == <<"N","o","P","a","t","t","e","r","n","H","e","r","e">>

\* Every concatenation of at most n fragments of F
RECURSIVE Concats(_, _)
Concats(F, n) ==
    IF n = 0 THEN {<<>>}
    ELSE LET shorter == Concats(F, n - 1)
         IN  shorter \cup {p \o f : p \in shorter, f \in F}

CategoryFragments ==
    {Underscore, DoubleUnderscore, Slash, Dot, <<"9">>, <<"x">>,
     KwFrame, KwDoodad, KwIconArt}

CategoryExamples ==
    {ExIconArtStoreFront, ExFrameBendBronze, ExFrameDoodadThing, ExZorblat,
     ExWindowSkin, ExButtonFrame}

\* The non-empty file names extract_category is called with
CategoryInputs ==
    (Concats(CategoryFragments, MaxFrags) \cup CategoryExamples) \ {<<>>}

NameFragments == {KwDefineSprite, AUnderscore, Underscore, <<"a">>, <<"7">>, <<"X">>}

NameExamples == {ExThunderGolem, ExEscapedGladiator, ExNoPatternHere}

\* The non-empty folder names extract_proper_name is called with
NameInputs ==
    (Concats(NameFragments, MaxNameFrags) \cup NameExamples) \ {<<>>}

-----------------------------------------------------------------------------
(* The filesystem.  A path is a sequence of names; <<>> is the working      *)
(* directory, which always exists.                                         *)

Dir == [kind |-> "dir", data |-> 0]
File(d) == [kind |-> "file", data |-> d]

\* No path / no list: the value None
NonePath == <<NoMatch>>
NoneTypes == <<NoMatch>>

Exists(f, p) == p = <<>> \/ p \in DOMAIN f
\* Path.is_dir / os.path.isdir
IsDir(f, p) == p = <<>> \/ (p \in DOMAIN f /\ f[p].kind = "dir")
\* Path.is_file
IsFile(f, p) == p \in DOMAIN f /\ f[p].kind = "file"

\* Path.name
PathName(p) == p[Len(p)]
\* Path.parent
PathParent(p) == Take(p, Len(p) - 1)

\* Path.iterdir / os.listdir: the entries directly inside d
Iterdir(f, d) == {p \in DOMAIN f : Len(p) = Len(d) + 1 /\ Take(p, Len(d)) = d}

\* Path.suffix: from the last dot of the name, unless that dot is the first
\* or the last character of the name
PathSuffix(p) ==
    LET name == PathName(p)
        i == RFind(name, Dot)
    IN  IF 1 < i /\ i < Len(name) THEN Drop(name, i - 1) ELSE <<>>

\* Path.mkdir(exist_ok=True) raises: the path is a file (FileExistsError) or
\* its parent is no directory (FileNotFoundError)
MkdirRaises(f, p) ==
    IF Exists(f, p) THEN ~IsDir(f, p) ELSE ~IsDir(f, PathParent(p))

\* Path.mkdir(exist_ok=True), when it does not raise
Mkdir(f, p) == IF Exists(f, p) THEN f ELSE (p :> Dir) @@ f

\* shutil.copy2(src, dst): data and metadata of src written to dst, or into
\* dst when dst is a directory
Copy2(f, src, dst) ==
    LET target == IF IsDir(f, dst) THEN dst \o <<PathName(src)>> ELSE dst
    IN  (target :> f[src]) @@ f

\* Path.unlink of every path of S
Unlink(f, S) == [p \in DOMAIN f \ S |-> f[p]]

-----------------------------------------------------------------------------
(* organize_files.py: organize_files, delete_non_foldered_files *)

ExtSvg == <<".","s","v","g">>
ExtPng == <<".","p","n","g">>

\* if file_types is None: file_types = ['.svg']
DefaultTypes(types) == IF types = NoneTypes THEN <<ExtSvg>> ELSE types

\* item.suffix.lower() in file_types
SuffixIn(p, types) == \E k \in DOMAIN types : types[k] = ToLower(PathSuffix(p))

\* The files organize_files selects: is_file() and (not file_types or suffix in file_types)
SelectedFiles(f, d, types) ==
    {p \in Iterdir(f, d) : IsFile(f, p) /\ (types = <<>> \/ SuffixIn(p, types))}

\* categories[category].append(file_path), on the insertion-ordered dict
AddToCategory(groups, file_path) ==
    LET c == extract_category(PathName(file_path))
    IN  IF \E k \in DOMAIN groups : groups[k][1] = c
        THEN LET k == CHOOSE k \in DOMAIN groups : groups[k][1] = c
             IN  [groups EXCEPT ![k] = <<c, Append(groups[k][2], file_path)>>]
        ELSE Append(groups, <<c, <<file_path>>>>)

\* for file_path in files: categories[extract_category(name)].append(file_path)
RECURSIVE GroupFiles(_)
GroupFiles(list) ==
    IF list = <<>> THEN <<>>
    ELSE AddToCategory(GroupFiles(Take(list, Len(list) - 1)), list[Len(list)])

\* Every order in which the directory may list the paths of S
Orderings(S) ==
    {q \in [1..Cardinality(S) -> S] : \A a, b \in DOMAIN q : a # b => q[a] # q[b]}

\* The files delete_non_foldered_files unlinks: is_file() and suffix in file_types
FilesToDelete(f, d, types) ==
    {p \in Iterdir(f, d) : IsFile(f, p) /\ SuffixIn(p, DefaultTypes(types))}

\* delete_non_foldered_files(directory_path, file_types)
delete_non_foldered_files(f, d, types) == Unlink(f, FilesToDelete(f, d, types))

\* Mutant: the deletion gated by delete_originals alone
DeletionRequested_IgnoresDryRun == delete_originals

\* if delete_originals and not dry_run
DeletionRequested == delete_originals /\ ~dry_run

\* category_dir = output_dir / category
CategoryDir(k) == output_dir \o <<categories[k][1]>>
\* Mutant: the destination directly under output_dir
DestPath_Flat(k, file_path) == output_dir \o <<PathName(file_path)>>

\* dest_path = category_dir / file_path.name
DestPath(k, file_path) == CategoryDir(k) \o <<PathName(file_path)>>

\* rename_sprites.main is not running
RenameIdle ==
    /\ directories = <<>>
    /\ di = 0
    /\ svg_files = <<>>
    /\ si = 0

\* Lines 81-92: resolve output_dir (created when given) and the default types
OrgStart ==
    /\ pc = "org_start"
    /\ file_types' = DefaultTypes(file_types)
    /\ IF output_arg = NonePath
       THEN /\ output_dir' = directory_path
            /\ pc' = "org_list"
            /\ UNCHANGED fs
       ELSE /\ output_dir' = output_arg
            /\ IF MkdirRaises(fs, output_arg)
               THEN pc' = "org_raised" /\ UNCHANGED fs
               ELSE pc' = "org_list" /\ fs' = Mkdir(fs, output_arg)
    /\ UNCHANGED <<renVars, pureVars, fs0, directory_path, output_arg, dry_run,
                   delete_originals, files, categories, ci, fi>>

\* Lines 94-110: list the directory, in the order it gives, and group
OrgList ==
    /\ pc = "org_list"
    /\ \E order \in Orderings(SelectedFiles(fs, directory_path, file_types)) :
          /\ files' = order
          /\ categories' = GroupFiles(order)
    /\ ci' = 1
    /\ pc' = "org_category"
    /\ UNCHANGED <<renVars, pureVars, fs, fs0, directory_path, output_arg, output_dir,
                   file_types, dry_run, delete_originals, fi>>

\* Lines 113-119: the category folder of the next category
OrgCategory ==
    /\ pc = "org_category"
    /\ ci <= Len(categories)
    /\ fi' = 1
    /\ IF dry_run
       THEN pc' = "org_file" /\ UNCHANGED fs
       ELSE IF MkdirRaises(fs, CategoryDir(ci))
       THEN pc' = "org_raised" /\ UNCHANGED fs
       ELSE pc' = "org_file" /\ fs' = Mkdir(fs, CategoryDir(ci))
    /\ UNCHANGED <<renVars, pureVars, fs0, directory_path, output_arg, output_dir,
                   file_types, dry_run, delete_originals, files, categories,
                   ci>>

\* The loop of lines 122-134 moves on to the next file or the next category
OrgAdvance ==
    IF fi < Len(categories[ci][2])
    THEN fi' = fi + 1 /\ UNCHANGED <<ci, pc>>
    ELSE ci' = ci + 1 /\ pc' = "org_category" /\ UNCHANGED fi

\* Lines 122-134: one file: reported (dry run), skipped (same path) or copied
OrgFile ==
    /\ pc = "org_file"
    /\ LET file_path == categories[ci][2][fi]
           dest_path == DestPath(ci, file_path)
       IN  IF dry_run \/ file_path = dest_path
           THEN UNCHANGED fs
           ELSE fs' = Copy2(fs, file_path, dest_path)
    /\ OrgAdvance
    /\ UNCHANGED <<renVars, pureVars, fs0, directory_path, output_arg, output_dir,
                   file_types, dry_run, delete_originals, files, categories>>

\* Line 134: shutil.copy2 raises (no space, no permission); the error is not
\* caught, so the run ends there
OrgCopyRaises ==
    /\ pc = "org_file"
    /\ ~dry_run
    /\ categories[ci][2][fi] # DestPath(ci, categories[ci][2][fi])
    /\ pc' = "org_raised"
    /\ UNCHANGED <<renVars, pureVars, fileVars>>

\* Lines 136-140: after the last category, the deletion when requested
OrgFinish ==
    /\ pc = "org_category"
    /\ ci > Len(categories)
    /\ IF DeletionRequested
       THEN fs' = delete_non_foldered_files(fs, directory_path, file_types)
       ELSE UNCHANGED fs
    /\ pc' = "org_done"
    /\ UNCHANGED <<renVars, pureVars, fs0, directory_path, output_arg, output_dir,
                   file_types, dry_run, delete_originals, files, categories,
                   ci, fi>>

(* The directories and files organize_files is run on *)

DirIn == <<"i","n">>
DirOut == <<"o","u","t">>
DirNew == <<"n","e","w">>
NameFrame1 == <<"F","r","a","m","e","1",".","s","v","g">>
NameIconArtA == <<"_","I","c","o","n","A","r","t","A",".","s","v","g">>
NameFrameB == <<"_","F","r","a","m","e","B",".","S","V","G">>
NamePng == <<"b",".","p","n","g">>
NameReadme == <<"r","e","a","d","m","e">>
NameOldDir == <<"o","l","d",".","s","v","g">>

\* The names a source directory may hold; a file's data is its place here
FilePool == <<NameFrame1, NameIconArtA, NameFrameB, NamePng, NameReadme>>

\* The source directory: "in", or "out/Frame" whose parent is "out"
SourceDirs == {<<DirIn>>, <<DirOut, KwFrame>>}
\* output_dir: None, the existing "out", or "new", which does not exist
OutputArgs == {NonePath, <<DirOut>>, <<DirNew>>}
\* file_types: None, ['.svg', '.png'], or the empty list
TypeArgs == {NoneTypes, <<ExtSvg, ExtPng>>, <<>>}

\* The tree before the run: "out", the source directory d holding the files
\* of pool places S and the folder "old.svg", and, when stale, a category
\* folder out/IconArt left by an earlier run
InitialTree(d, S, stale) ==
    LET dirs == {<<DirOut>>, d, d \o <<NameOldDir>>}
                \cup (IF stale THEN {<<DirOut, KwIconArt>>} ELSE {})
        srcs == {d \o <<FilePool[k]>> : k \in S}
        old == IF stale THEN {<<DirOut, KwIconArt, NameIconArtA>>} ELSE {}
    IN  [p \in dirs \cup srcs \cup old |->
            IF p \in dirs THEN Dir
            ELSE IF p \in old THEN File(0)
            ELSE File(CHOOSE k \in S : d \o <<FilePool[k]>> = p)]

InitOrganize ==
    /\ pc = "org_start"
    /\ directory_path \in SourceDirs
    /\ output_arg \in OutputArgs
    /\ file_types \in TypeArgs
    /\ dry_run \in BOOLEAN
    /\ delete_originals \in BOOLEAN
    /\ \E S \in SUBSET DOMAIN FilePool, stale \in BOOLEAN :
          /\ Cardinality(S) <= MaxFiles
          /\ fs = InitialTree(directory_path, S, stale)
    /\ fs0 = fs
    /\ output_dir = output_arg
    /\ files = <<>>
    /\ categories = <<>>
    /\ ci = 0
    /\ fi = 0
    /\ RenameIdle
    /\ filename = NoMatch
    /\ category = NoMatch
    /\ folder_name = NoMatch
    /\ proper_name = NoMatch

NextOrganize ==
    \/ OrgStart
    \/ OrgList
    \/ OrgCategory
    \/ OrgFile
    \/ OrgCopyRaises
    \/ OrgFinish

SpecOrganize == InitOrganize /\ [][NextOrganize]_vars

\* No file program is running
FilesIdle ==
    /\ fs = <<>>
    /\ fs0 = <<>>
    /\ directory_path = NonePath
    /\ output_arg = NonePath
    /\ output_dir = NonePath
    /\ file_types = NoneTypes
    /\ dry_run = FALSE
    /\ delete_originals = FALSE
    /\ files = <<>>
    /\ categories = <<>>
    /\ ci = 0
    /\ fi = 0
    /\ RenameIdle

-----------------------------------------------------------------------------
(* rename_sprites.py: main *)

SpritesDone == <<"s","p","r","i","t","e","s","_","d","o","n","e">>
Svg == <<".","s","v","g">>

\* The characters of names, in code point order
CodePoints ==
    <<"-",".","/","0","1","2","3","4","5","6","7","8","9",
      "A","B","C","D","E","F","G","H","I","J","K","L","M",
      "N","O","P","Q","R","S","T","U","V","W","X","Y","Z","_",
      "a","b","c","d","e","f","g","h","i","j","k","l","m",
      "n","o","p","q","r","s","t","u","v","w","x","y","z">>
CodePoint(c) == CHOOSE k \in DOMAIN CodePoints : CodePoints[k] = c

\* a < b on strings
RECURSIVE StrLess(_, _)
StrLess(a, b) ==
    IF b = <<>> THEN FALSE
    ELSE IF a = <<>> THEN TRUE
    ELSE IF a[1] = b[1] THEN StrLess(Tail(a), Tail(b))
    ELSE CodePoint(a[1]) < CodePoint(b[1])

\* sorted(S)
RECURSIVE Sorted(_)
Sorted(S) ==
    IF S = {} THEN <<>>
    ELSE LET least == CHOOSE x \in S : \A y \in S \ {x} : StrLess(x, y)
         IN  <<least>> \o Sorted(S \ {least})

DigitChars == <<"0","1","2","3","4","5","6","7","8","9">>
\* f"{i:02d}", for i below 100
TwoDigits(i) == <<DigitChars[(i \div 10) + 1], DigitChars[(i % 10) + 1]>>

\* [d for d in os.listdir() if os.path.isdir(d) and not d.startswith("sprites_done")]
CandidateFolders(f) ==
    {d \in Iterdir(f, <<>>) : IsDir(f, d) /\ ~StartsWith(PathName(d), SpritesDone)}

\* [f for f in os.listdir(folder) if f.lower().endswith('.svg')]
SvgNames(f, folder) ==
    {PathName(p) : p \in {q \in Iterdir(f, folder) : EndsWith(ToLower(PathName(q)), Svg)}}

\* dest_path of the i-th file of a folder with num_files files named P
SpriteDest(P, num_files, i) ==
    IF num_files = 1
    THEN <<SpritesDone, P \o Svg>>
    ELSE <<SpritesDone, P, P \o Underscore \o TwoDigits(i) \o Svg>>

\* Lines 32-38: the output directory and the folders to process
RenStart ==
    /\ pc = "ren_start"
    /\ IF MkdirRaises(fs, <<SpritesDone>>)
       THEN pc' = "ren_raised" /\ UNCHANGED <<fs, directories, di>>
       ELSE /\ fs' = Mkdir(fs, <<SpritesDone>>)
            /\ directories' \in Orderings(CandidateFolders(fs))
            /\ di' = 1
            /\ pc' = "ren_folder"
    /\ UNCHANGED <<pureVars, fs0, directory_path, output_arg, output_dir,
                   file_types, dry_run, delete_originals, files, categories,
                   ci, fi, svg_files, si>>

\* Lines 41-55: the next folder: its proper name, its .svg files, and its
\* subfolder when it holds more than one
RenFolder ==
    /\ pc = "ren_folder"
    /\ di <= Len(directories)
    /\ LET folder == directories[di]
           name == extract_proper_name(PathName(folder))
           names == SvgNames(fs, folder)
           subfolder == <<SpritesDone, name>>
       IN  /\ folder_name' = PathName(folder)
           /\ proper_name' = name
           /\ svg_files' = Sorted(names)
           /\ si' = 1
           /\ IF Cardinality(names) > 1 /\ MkdirRaises(fs, subfolder)
              THEN pc' = "ren_raised" /\ UNCHANGED <<fs, di>>
              ELSE /\ fs' = IF Cardinality(names) > 1 THEN Mkdir(fs, subfolder) ELSE fs
                   /\ IF names = {}
                      THEN di' = di + 1 /\ pc' = "ren_folder"
                      ELSE pc' = "ren_copy" /\ UNCHANGED di
    /\ UNCHANGED <<filename, category, fs0, directory_path, output_arg,
                   output_dir, file_types, dry_run, delete_originals, files,
                   categories, ci, fi, directories>>

\* Lines 58-71: one file copied under its new name
RenCopy ==
    /\ pc = "ren_copy"
    /\ LET source_path == directories[di] \o <<svg_files[si]>>
           dest_path == SpriteDest(proper_name, Len(svg_files), si)
       IN  fs' = Copy2(fs, source_path, dest_path)
    /\ IF si < Len(svg_files)
       THEN si' = si + 1 /\ UNCHANGED <<di, pc>>
       ELSE di' = di + 1 /\ pc' = "ren_folder" /\ UNCHANGED si
    /\ UNCHANGED <<pureVars, fs0, directory_path, output_arg, output_dir,
                   file_types, dry_run, delete_originals, files, categories,
                   ci, fi, directories, svg_files>>

\* Line 73: every folder has been processed
RenFinish ==
    /\ pc = "ren_folder"
    /\ di > Len(directories)
    /\ pc' = "ren_done"
    /\ UNCHANGED <<pureVars, fileVars, renVars>>

(* The working directories rename_sprites.main is run in *)

FolderAX1 == <<"D","e","f","i","n","e","S","p","r","i","t","e","_","1","_","a","_","X">>
FolderAX2 == <<"D","e","f","i","n","e","S","p","r","i","t","e","_","2","_","a","_","X">>
FolderY == <<"D","e","f","i","n","e","S","p","r","i","t","e","_","3","_","Y">>
FolderOld == <<"s","p","r","i","t","e","s","_","d","o","n","e","_","o","l","d">>
NameNotes == <<"n",".","t","x","t">>

\* The sprite folders, and the .svg names a folder may hold
FolderPool == <<FolderAX1, FolderAX2, FolderY>>
SpritePool ==
    << <<"1",".","s","v","g">>, <<"1","0",".","s","v","g">>,
       <<"2",".","S","V","G">>, <<"3",".","s","v","g">> >>

\* The data of the file named SpritePool[k] in folder FolderPool[j]
SpriteData(j, k) == j * (Len(SpritePool) + 1) + k

\* The tree before the run: every sprite folder j holds "n.txt" and the .svg
\* files of places holds[j]; "sprites_done_old" holds one .svg file; the
\* file "n.txt" lies beside the folders; "sprites_done" exists when done
InitialSprites(holds, done) ==
    LET dirs == {<<FolderPool[j]>> : j \in DOMAIN FolderPool} \cup {<<FolderOld>>}
                \cup (IF done THEN {<<SpritesDone>>} ELSE {})
        notes == {<<FolderPool[j], NameNotes>> : j \in DOMAIN FolderPool}
                 \cup {<<NameNotes>>, <<FolderOld, SpritePool[1]>>}
        svgs == {<<FolderPool[j], SpritePool[k]>> :
                    j \in DOMAIN FolderPool, k \in 1..MaxSprites}
        held == {p \in svgs : \E j \in DOMAIN FolderPool : \E k \in holds[j] :
                    p = <<FolderPool[j], SpritePool[k]>>}
    IN  [p \in dirs \cup notes \cup held |->
            IF p \in dirs THEN Dir
            ELSE IF p \in notes THEN File(0)
            ELSE LET jk == CHOOSE jk \in (DOMAIN FolderPool) \X (1..MaxSprites) :
                              p = <<FolderPool[jk[1]], SpritePool[jk[2]]>>
                 IN  File(SpriteData(jk[1], jk[2]))]

InitRename ==
    /\ pc = "ren_start"
    /\ \E holds \in [DOMAIN FolderPool -> SUBSET (1..MaxSprites)], done \in BOOLEAN :
          fs = InitialSprites(holds, done)
    /\ fs0 = fs
    /\ directory_path = NonePath
    /\ output_arg = NonePath
    /\ output_dir = NonePath
    /\ file_types = NoneTypes
    /\ dry_run = FALSE
    /\ delete_originals = FALSE
    /\ files = <<>>
    /\ categories = <<>>
    /\ ci = 0
    /\ fi = 0
    /\ RenameIdle
    /\ filename = NoMatch
    /\ category = NoMatch
    /\ folder_name = NoMatch
    /\ proper_name = NoMatch

NextRename ==
    \/ RenStart
    \/ RenFolder
    \/ RenCopy
    \/ RenFinish

SpecRename == InitRename /\ [][NextRename]_vars

-----------------------------------------------------------------------------
(* The pure functions as programs: one call each *)

InitCategory ==
    /\ pc = "category_call"
    /\ filename \in CategoryInputs
    /\ category = NoMatch
    /\ folder_name = NoMatch
    /\ proper_name = NoMatch
    /\ FilesIdle

CallExtractCategory ==
    /\ pc = "category_call"
    /\ category' = extract_category(filename)
    /\ pc' = "category_return"
    /\ UNCHANGED <<filename, folder_name, proper_name, fileVars, renVars>>

NextCategory == CallExtractCategory

SpecCategory == InitCategory /\ [][NextCategory]_vars

InitName ==
    /\ pc = "name_call"
    /\ folder_name \in NameInputs
    /\ proper_name = NoMatch
    /\ filename = NoMatch
    /\ category = NoMatch
    /\ FilesIdle

CallExtractProperName ==
    /\ pc = "name_call"
    /\ proper_name' = extract_proper_name(folder_name)
    /\ pc' = "name_return"
    /\ UNCHANGED <<folder_name, filename, category, fileVars, renVars>>

NextName == CallExtractProperName

SpecName == InitName /\ [][NextName]_vars

-----------------------------------------------------------------------------
(* The whole system: one of the four programs runs *)

Init == InitCategory \/ InitName \/ InitOrganize \/ InitRename

Next == NextCategory \/ NextName \/ NextOrganize \/ NextRename

Spec == Init /\ [][Next]_vars

-----------------------------------------------------------------------------
(* Properties of extract_category *)

Keywords == {KwIconArt, KwFrame, KwDoodad, KwWindow, KwButton}

\* s begins with an optional single underscore followed by keyword kw
BeginsWithKeyword(s, kw) == StartsWith(s, kw) \/ StartsWith(s, Underscore \o kw)
BeginsWithNoKeyword(s) == \A kw \in Keywords : ~BeginsWithKeyword(s, kw)

\* The final path segment of a name
FinalSegment(s) == SplitLast(s, Slash)
\* The text after the first double underscore of a name that has one
AfterDoubleUnderscore(s) == SplitFirstRest(s, DoubleUnderscore)

\* C4: when the final path segment begins with no keyword and the original
\* name, directory segments included, contains "__", and the text after the
\* first "__" begins with an optional underscore and a keyword, the result is
\* that keyword.
C4_DoubleUnderscoreOnOriginal ==
    pc = "category_return" =>
        \A kw \in Keywords :
            ( /\ BeginsWithNoKeyword(FinalSegment(filename))
              /\ Contains(filename, DoubleUnderscore)
              /\ BeginsWithKeyword(AfterDoubleUnderscore(filename), kw) )
            => category = kw

\* C5: when the final path segment begins, at position 0, with an optional
\* single underscore followed by a keyword, the result is exactly that
\* keyword, whatever follows.
C5_PrefixRule ==
    pc = "category_return" =>
        \A kw \in Keywords :
            BeginsWithKeyword(FinalSegment(filename), kw) => category = kw

\* C5 witness: "FrameDoodadThing.svg" has been categorized as "Frame".
C5_Witness ==
    /\ pc = "category_return"
    /\ filename = ExFrameDoodadThing
    /\ category = KwFrame

\* C6: for every non-empty input the result is a non-empty string.
C6_NonEmptyResult ==
    pc = "category_return" => (filename # <<>> => category # <<>>)

\* The double-underscore fallback yields a result: the text after the first
\* "__" begins with no keyword and with at least one ASCII letter
DoubleFallbackYields(s) ==
    /\ Contains(s, DoubleUnderscore)
    /\ BeginsWithNoKeyword(AfterDoubleUnderscore(s))
    /\ LeadingLetters(AfterDoubleUnderscore(s)) # <<>>

\* The text after the first "__" begins with a keyword
DoubleKeywordYields(s) ==
    /\ Contains(s, DoubleUnderscore)
    /\ ~BeginsWithNoKeyword(AfterDoubleUnderscore(s))

\* The name has a single leading underscore rule result: it starts with an
\* underscore and letters follow that underscore
UnderscoreYields(s) ==
    /\ StartsWith(s, Underscore)
    /\ LeadingLetters(Drop(s, 1)) # <<>>

\* The names C9 is about: no path separator, no keyword at the start
C9_Scope ==
    /\ pc = "category_return"
    /\ ~Contains(filename, Slash)
    /\ BeginsWithNoKeyword(filename)

\* C9 as stated: the leading-underscore rule is applied only when the name
\* contains no "__"; otherwise, when the double-underscore fallback yields
\* nothing, the result is the name without its extension.
C9_Original ==
    C9_Scope =>
        /\ DoubleFallbackYields(filename)
            => category = LeadingLetters(AfterDoubleUnderscore(filename))
        /\ (~Contains(filename, DoubleUnderscore) /\ UnderscoreYields(filename))
            => category = LeadingLetters(Drop(filename, 1))
        /\ ( /\ ~DoubleFallbackYields(filename)
             /\ ~DoubleKeywordYields(filename)
             /\ ~(~Contains(filename, DoubleUnderscore) /\ UnderscoreYields(filename)) )
            => category = splitext_root(filename)

\* C9 amended: the leading-underscore rule is applied whenever the
\* double-underscore rule returns nothing, also for a name that contains "__"
\* when the text after the first "__" begins with no keyword and no letter.
C9_FallbackCascade ==
    C9_Scope =>
        /\ DoubleFallbackYields(filename)
            => category = LeadingLetters(AfterDoubleUnderscore(filename))
        /\ ( /\ ~DoubleFallbackYields(filename)
             /\ ~DoubleKeywordYields(filename)
             /\ UnderscoreYields(filename) )
            => category = LeadingLetters(Drop(filename, 1))
        /\ ( /\ ~DoubleFallbackYields(filename)
             /\ ~DoubleKeywordYields(filename)
             /\ ~UnderscoreYields(filename) )
            => category = splitext_root(filename)

\* C9 witness: "_x__9" has been categorized by the leading-underscore rule
\* although it contains "__".
C9_Witness ==
    /\ pc = "category_return"
    /\ filename = <<"_", "x", "_", "_", "9">>
    /\ category = <<"x">>

-----------------------------------------------------------------------------
(* Properties of extract_proper_name *)

\* Some "a_" of s is followed by at least one character
HasAUnderscoreRest(s) ==
    \E i \in 1..(Len(s) - 2) : s[i] = "a" /\ s[i + 1] = "_"

\* s[i..] reads DefineSprite_<digits>_<rest>, the '_' before rest at j
IsDefineSpriteAt(s, i, j) ==
    /\ i + Len(KwDefineSprite) < j
    /\ j < Len(s)
    /\ SubSeq(s, i, i + Len(KwDefineSprite) - 1) = KwDefineSprite
    /\ \A k \in (i + Len(KwDefineSprite))..(j - 1) : s[k] \in Digits
    /\ s[j] = "_"

HasDefineSprite(s) == \E i, j \in 1..Len(s) : IsDefineSpriteAt(s, i, j)

\* C8: (1) a name with "a_" followed by at least one character gives what
\* follows the leftmost "a_", also when it matches DefineSprite_<digits>_;
\* (2) otherwise a name holding DefineSprite_<digits>_<rest>, rest non-empty,
\* gives rest (of the leftmost such place); (3) otherwise the name unchanged.
C8_FirstMatchCascade ==
    pc = "name_return" =>
        IF HasAUnderscoreRest(folder_name)
        THEN proper_name = Drop(folder_name, Find(folder_name, AUnderscore) + 1)
        ELSE IF HasDefineSprite(folder_name)
        THEN \E i, j \in 1..Len(folder_name) :
                /\ IsDefineSpriteAt(folder_name, i, j)
                /\ \A i2, j2 \in 1..Len(folder_name) :
                      IsDefineSpriteAt(folder_name, i2, j2) => i <= i2
                /\ proper_name = Drop(folder_name, j)
        ELSE proper_name = folder_name

\* C8 witness: "DefineSprite_2_a_WaistSide_ThunderGolem", which matches both
\* patterns, has given "WaistSide_ThunderGolem".
C8_Witness ==
    /\ pc = "name_return"
    /\ folder_name = ExThunderGolem
    /\ proper_name = <<"W","a","i","s","t","S","i","d","e","_","T","h","u","n","d","e","r","G","o","l","e","m">>

-----------------------------------------------------------------------------
(* Properties of organize_files *)

\* p lies directly inside directory d
IsChildOf(p, d) == Len(p) = Len(d) + 1 /\ SubSeq(p, 1, Len(d)) = d

\* The lower-cased extension of the file at p is one of the allowed list
HasAllowedExtension(p, allowed) ==
    \E k \in DOMAIN allowed : allowed[k] = ToLower(PathSuffix(p))

\* The top-level files of the source directory in tree f
TopLevelFiles(f) ==
    {p \in DOMAIN f : IsChildOf(p, directory_path) /\ f[p].kind = "file"}

\* The files the run groups: the top-level files, before the run, with an
\* allowed extension (every file, when the list of extensions is empty)
GroupedFiles ==
    {p \in TopLevelFiles(fs0) :
        file_types = <<>> \/ HasAllowedExtension(p, file_types)}

CategoryOf(p) == extract_category(PathName(p))
RunCategories == {CategoryOf(p) : p \in GroupedFiles}

\* Where the file p of the source directory belongs after the run
GroupedPath(p) == output_dir \o <<CategoryOf(p), PathName(p)>>

\* C1: with dry_run the filesystem stays as it was before the run, whatever
\* output_dir, file_types and delete_originals are.
C1_DryRunChangesNothing == dry_run => fs = fs0

\* The output tree holds no folder (or file) named by a category of the run
NoCategoryFolders ==
    \A c \in RunCategories : ~Exists(fs0, output_dir \o <<c>>)

\* The folders directly under output_dir that the run made or that carry the
\* name of one of its categories
CategoryFolders ==
    {p \in DOMAIN fs :
        /\ IsChildOf(p, output_dir)
        /\ fs[p].kind = "dir"
        /\ (p \notin DOMAIN fs0 \/ PathName(p) \in RunCategories)}

\* The files directly inside folder d
FilesIn(d) == {p \in DOMAIN fs : IsChildOf(p, d) /\ fs[p].kind = "file"}

\* A completed run that moved files
CompletedRun == pc = "org_done" /\ ~dry_run

\* C2: from an output tree without category folders, a completed non-dry run
\* over N grouped files in K categories leaves exactly K category folders,
\* folder c holding exactly the files of category c, with their data, and N
\* files in all of them together.
C2_GroupingRoundTrip ==
    (CompletedRun /\ NoCategoryFolders) =>
        /\ CategoryFolders = {output_dir \o <<c>> : c \in RunCategories}
        /\ Cardinality(CategoryFolders) = Cardinality(RunCategories)
        /\ \A c \in RunCategories :
              /\ FilesIn(output_dir \o <<c>>)
                    = {GroupedPath(p) : p \in {q \in GroupedFiles : CategoryOf(q) = c}}
              /\ \A p \in GroupedFiles :
                    CategoryOf(p) = c => fs[GroupedPath(p)] = fs0[p]
        /\ Cardinality(UNION {FilesIn(d) : d \in CategoryFolders})
              = Cardinality(GroupedFiles)

\* C2 witness: a run over three files in two categories has completed.
C2_Witness ==
    /\ CompletedRun
    /\ NoCategoryFolders
    /\ Cardinality(GroupedFiles) = 3
    /\ Cardinality(RunCategories) = 2

\* The places <<k, j>> of the files the loop has passed: reported, skipped
\* or copied
PassedPlaces ==
    {kj \in (DOMAIN categories) \X (1..Len(files)) :
        /\ kj[2] <= Len(categories[kj[1]][2])
        /\ (kj[1] < ci \/ (kj[1] = ci /\ kj[2] < fi))}
PassedFiles == {categories[kj[1]][2][kj[2]] : kj \in PassedPlaces}

\* The copy of source file p is in its category folder (or p is that copy)
CopyInPlace(p) ==
    \/ p = GroupedPath(p)
    \/ (GroupedPath(p) \in DOMAIN fs /\ fs[GroupedPath(p)] = fs0[p])

\* The paths that existed before the run and exist no more
Removed == DOMAIN fs0 \ DOMAIN fs

\* C3: a file is deleted only with delete_originals and without dry_run, and
\* only once every copy is made; a failed run keeps the copies it made and
\* deletes nothing, and goes no further; a deletion that ran leaves no
\* top-level file of the source directory with an allowed extension.
C3_DeletionGating ==
    /\ Removed # {} =>
          /\ delete_originals /\ ~dry_run
          /\ pc = "org_done"
          /\ \A p \in GroupedFiles : CopyInPlace(p)
    /\ pc = "org_raised" =>
          /\ Removed = {}
          /\ \A p \in TopLevelFiles(fs0) : fs[p] = fs0[p]
          /\ \A p \in PassedFiles : CopyInPlace(p)
          /\ ~ENABLED NextOrganize
    /\ (pc = "org_done" /\ delete_originals /\ ~dry_run) =>
          /\ \A p \in TopLevelFiles(fs) : ~HasAllowedExtension(p, file_types)
          /\ Removed = {p \in TopLevelFiles(fs0) : HasAllowedExtension(p, file_types)}

\* C3 witness: the deletion has run after two copies were made, and a file
\* whose extension is not allowed is still in the source directory.
C3_Witness ==
    /\ pc = "org_done"
    /\ Cardinality(Removed) = 2
    /\ TopLevelFiles(fs) # {}
    /\ \A p \in GroupedFiles : p # GroupedPath(p) /\ CopyInPlace(p)

\* C10: after a completed non-dry run with delete_originals, every file that
\* was selected for grouping is at output_dir/<category>/<name> with the data
\* it had.
C10_NoDataLoss ==
    (CompletedRun /\ delete_originals) =>
        \A p \in GroupedFiles :
            /\ GroupedPath(p) \in DOMAIN fs
            /\ fs[GroupedPath(p)] = fs0[p]

-----------------------------------------------------------------------------
(* Properties of rename_sprites.main *)

\* The candidate subfolders of the working directory, before the run
Candidates ==
    {d \in DOMAIN fs0 :
        Len(d) = 1 /\ fs0[d].kind = "dir" /\ ~StartsWith(d[1], SpritesDone)}

\* The files of folder d whose name ends in .svg, whatever the case
SvgFilesOf(d) ==
    {p \in DOMAIN fs0 :
        /\ IsChildOf(p, d)
        /\ fs0[p].kind = "file"
        /\ EndsWith(ToLower(PathName(p)), Svg)}

\* The place of p among the files S in sorted order of their names
RankIn(p, S) == 1 + Cardinality({q \in S : StrLess(PathName(q), PathName(p))})

ProperNameOf(d) == extract_proper_name(d[1])
NumberedName(P, i) == P \o Underscore \o TwoDigits(i) \o Svg

\* What the run created
Created == DOMAIN fs \ DOMAIN fs0

\* C7: after the run, a candidate folder with one .svg file has its copy at
\* sprites_done/P.svg and no folder sprites_done/P of its own; one with M > 1
\* has sprites_done/P holding P_01.svg .. P_0M.svg, the i-th a copy of its
\* i-th file in sorted order; one with none has nothing written; and every
\* file inside a candidate folder is as it was.
C7_FanOutLayout ==
    pc = "ren_done" =>
        \A d \in Candidates :
            LET P == ProperNameOf(d)
                S == SvgFilesOf(d)
                M == Cardinality(S)
                alone == \A e \in Candidates \ {d} : ProperNameOf(e) # P
            IN  /\ M = 1 =>
                      \A p \in S :
                          /\ <<SpritesDone, P \o Svg>> \in DOMAIN fs
                          /\ fs[<<SpritesDone, P \o Svg>>] = fs0[p]
                /\ (M <= 1 /\ alone) => <<SpritesDone, P>> \notin Created
                /\ (M = 0 /\ alone) => <<SpritesDone, P \o Svg>> \notin Created
                /\ M > 1 =>
                      /\ FilesIn(<<SpritesDone, P>>)
                            = {<<SpritesDone, P, NumberedName(P, i)>> : i \in 1..M}
                      /\ \A p \in S :
                            fs[<<SpritesDone, P, NumberedName(P, RankIn(p, S))>>] = fs0[p]
                /\ \A p \in DOMAIN fs0 :
                      IsChildOf(p, d) => (p \in DOMAIN fs /\ fs[p] = fs0[p])

=============================================================================
